---- MODULE Spec2Model ----
(***************************************************************************)
(* Strategic Account Mapper: the session state of App.tsx, the extraction  *)
(* boundary of services/geminiService.ts and the chart pipeline of the two *)
(* OrgChart sources (components/OrgChart.tsx and unnamed/part_000).        *)
(***************************************************************************)
EXTENDS Integers, Sequences, FiniteSets, TLC

VARIABLES
    analysis,      \* App: useState<AccountAnalysis | null>
    activeDept,    \* App: useState<string | null>
    stagedFiles,   \* App: useState<File[]>, each file by what file.text() gives
    status,        \* App: useState<ProcessingState>
    run,           \* position of the outstanding runAnalysis call
    selectedNode,  \* OrgChart: useState<OrgNode | null>, kept by its id
    chart,         \* what the last run of the OrgChart effect left on the svg
    chartSrc,      \* which OrgChart source is mounted (fixed for a behaviour)
    appSrc,        \* which App of App.tsx runs (fixed for a behaviour)
    last           \* history: the last step that wrote the Analysis, the status or
                   \* the view, the Analysis and status it started from and, for
                   \* a returned extraction, the collaborator's parsed response
                   \* (New Scan records the operation only)

vars == <<analysis, activeDept, stagedFiles, status, run, selectedNode, chart, chartSrc,
          appSrc, last>>

----------------------------------------------------------------------------
(* Bounds of the model *)

MaxContacts == 3      \* longest contact list the collaborator returns
MaxFiles == 1         \* most files staged at once
MaxDrags == 2         \* most drag events between two builds of the chart
MaxDragContacts == 2  \* longest contact list returned to a user who drags

----------------------------------------------------------------------------
(* Values *)

NULL == "null"        \* JS null / undefined of a string-valued field
NoRank == -1          \* seniorityRank absent from the record

Truthy(s) == s /= NULL /\ s /= ""

OrgChartTsx == "components/OrgChart.tsx"
Part000 == "unnamed/part_000"
ChartSources == {OrgChartTsx, Part000}

\* App.tsx holds two App components: lines 1-265 and lines 268-592
AppV1 == "App.tsx:1-265"
AppV2 == "App.tsx:268-592"
AppSources == {AppV1, AppV2}

Contacts(ids, mgrs, depts, ranks) ==
    [id : ids, managerId : mgrs, department : depts, seniorityRank : ranks,
     title : {"VP"}]

SeqsUpTo(S, n) == UNION {[1..k -> S] : k \in 0..n}

Range(s) == {s[i] : i \in DOMAIN s}

IdsOf(contacts) == {contacts[i].id : i \in DOMAIN contacts}

NoAnalysis == [isNull |-> TRUE, contacts |-> <<>>]

AnalysisOf(contacts) == [isNull |-> FALSE, contacts |-> contacts]

----------------------------------------------------------------------------
(* services/geminiService.ts: the extraction boundary *)

\* a boundary that lets a self reference through
BoundaryManagerIdNoSelfTest(c, validIds) ==
    IF Truthy(c.managerId) /\ c.managerId \in validIds THEN c.managerId ELSE NULL

\* managerId: (c.managerId && validIds.has(c.managerId) && c.managerId !== c.id)
\*            ? c.managerId : null
BoundaryManagerId(c, validIds) ==
    IF Truthy(c.managerId) /\ c.managerId \in validIds /\ c.managerId /= c.id
    THEN c.managerId
    ELSE NULL

analyzeAccountDocument(parsed) ==
    LET validIds == IdsOf(parsed)
    IN  [i \in 1..Len(parsed) |->
            [parsed[i] EXCEPT !.managerId = BoundaryManagerId(parsed[i], validIds)]]

----------------------------------------------------------------------------
(* App.tsx: deleteStakeholder *)

\* prev.contacts.find(c => c.id === id): index of the first match, 0 when none
FindTarget(contacts, id) ==
    LET hits == {i \in 1..Len(contacts) : contacts[i].id = id}
    IN  IF hits = {} THEN 0 ELSE CHOOSE i \in hits : \A j \in hits : i <= j

\* the .map callback: a contact pointing at the deleted id is bridged
BridgeKeepsManager(c, id, target) == c

Bridge(c, id, target) ==
    IF c.managerId = id
    THEN [c EXCEPT !.managerId = IF Truthy(target.managerId) THEN target.managerId ELSE NULL]
    ELSE c

\* a Delete written with findIndex and splice: splice(-1, 1) drops the last contact
deleteStakeholderSplice(prev, id) ==
    IF prev.isNull THEN prev
    ELSE IF FindTarget(prev.contacts, id) = 0
         THEN [prev EXCEPT !.contacts = SubSeq(prev.contacts, 1, Len(prev.contacts) - 1)]
         ELSE [prev EXCEPT !.contacts = SelectSeq(prev.contacts, LAMBDA c : c.id /= id)]

\* the setAnalysis updater of deleteStakeholder
deleteStakeholder(prev, id) ==
    IF prev.isNull THEN prev
    ELSE LET t == FindTarget(prev.contacts, id)
         IN  IF t = 0 THEN prev
             ELSE LET target == prev.contacts[t]
                      kept == SelectSeq(prev.contacts, LAMBDA c : c.id /= id)
                  IN  [prev EXCEPT !.contacts =
                          [i \in 1..Len(kept) |-> Bridge(kept[i], id, target)]]

----------------------------------------------------------------------------
(* App.tsx: departments *)

departments(a) ==
    IF a.isNull THEN {}
    ELSE {IF Truthy(a.contacts[i].department) THEN a.contacts[i].department ELSE "General" :
            i \in DOMAIN a.contacts}

----------------------------------------------------------------------------
(* OrgChart effect: filter, Identity Validator, Reference Sanitizer *)

\* if (filterDepartment) contacts = contacts.filter(c => c.department === filterDepartment)
FilterDepartment(contacts, filterDepartment) ==
    IF Truthy(filterDepartment)
    THEN SelectSeq(contacts, LAMBDA c : c.department = filterDepartment)
    ELSE contacts

\* components/OrgChart.tsx: "__ORG_ROOT__"; part_000: `__ROOT_${Date.now()}__`
VIRTUAL_ROOT_ID(src, now) ==
    IF src = OrgChartTsx THEN "__ORG_ROOT__" ELSE "__ROOT_" \o ToString(now) \o "__"

\* part_000: contacts.forEach(c => { if (!validIds.has(c.id)) { add; push } })
RECURSIVE ForEachUnique(_, _, _, _)
ForEachUnique(contacts, i, validIds, out) ==
    IF i > Len(contacts) THEN out
    ELSE IF contacts[i].id \in validIds
         THEN ForEachUnique(contacts, i + 1, validIds, out)
         ELSE ForEachUnique(contacts, i + 1, validIds \cup {contacts[i].id},
                            Append(out, contacts[i]))

\* a validator that drops nothing
sanitizedContactsKeepAll(contacts) == contacts

sanitizedContacts(contacts) == ForEachUnique(contacts, 1, {}, <<>>)

\* the sequence the sanitizer maps over: part_000 validates, OrgChart.tsx does not
ValidatedContacts(src, contacts) ==
    IF src = Part000 THEN sanitizedContacts(contacts) ELSE contacts

\* a sanitizer that never looks the manager up
ResolvedManagerIdUnchecked(src, c, validIds, rootId) ==
    IF Truthy(c.managerId) /\ (src = Part000 => c.managerId /= c.id)
    THEN c.managerId ELSE rootId

\* managerId of a forestData entry
ResolvedManagerId(src, c, validIds, rootId) ==
    IF src = Part000
    THEN IF Truthy(c.managerId) /\ c.managerId \in validIds /\ c.managerId /= c.id
         THEN c.managerId ELSE rootId
    ELSE IF Truthy(c.managerId) /\ c.managerId \in validIds
         THEN c.managerId ELSE rootId

\* the object pushed onto forestData
VirtualRoot(rootId) ==
    [id |-> rootId, managerId |-> NULL, department |-> "Core", seniorityRank |-> 0,
     title |-> "Account HQ"]

forestData(src, contacts, rootId) ==
    LET valid == ValidatedContacts(src, contacts)
        validIds == IdsOf(contacts)
    IN  Append([i \in 1..Len(valid) |->
                   [valid[i] EXCEPT !.managerId =
                       ResolvedManagerId(src, valid[i], validIds, rootId)]],
               VirtualRoot(rootId))

----------------------------------------------------------------------------
(* OrgChart effect: Tree Builder (d3.stratify, then root.sort) *)

\* .parentId(d => d.managerId || null)
ParentId(d) == IF Truthy(d.managerId) THEN d.managerId ELSE NULL

NodesWithId(fd, id) == {j \in 1..Len(fd) : fd[j].id = id}

\* what stratify throws on reaching node i in data order, "none" if nothing
StratifyErrorAt(fd, i) ==
    IF ParentId(fd[i]) /= NULL
    THEN IF NodesWithId(fd, ParentId(fd[i])) = {} THEN "missing"
         ELSE IF Cardinality(NodesWithId(fd, ParentId(fd[i]))) > 1 THEN "ambiguous"
         ELSE "none"
    ELSE IF \E j \in 1..(i - 1) : ParentId(fd[j]) = NULL THEN "multiple roots"
         ELSE "none"

\* index of the parent node of node i, 0 for a node without parent
ParentIndex(fd, i) ==
    IF ParentId(fd[i]) = NULL \/ NodesWithId(fd, ParentId(fd[i])) = {} THEN 0
    ELSE CHOOSE j \in NodesWithId(fd, ParentId(fd[i])) :
            \A k \in NodesWithId(fd, ParentId(fd[i])) : j <= k

\* node i reaches a parentless node in at most `fuel` parent steps
RECURSIVE ReachesRoot(_, _, _)
ReachesRoot(fd, i, fuel) ==
    IF ParentIndex(fd, i) = 0 THEN TRUE
    ELSE IF fuel = 0 THEN FALSE
    ELSE ReachesRoot(fd, ParentIndex(fd, i), fuel - 1)

Indices(fd) == [i \in 1..Len(fd) |-> i]

\* parent.children.push(node), in data order
ChildrenOf(fd, i) == SelectSeq(Indices(fd), LAMBDA j : ParentIndex(fd, j) = i)

\* a builder that does not throw on a cycle: it hangs the nodes that do not reach
\* the root under the root, without their children links
stratifyCycleUnderRoot(fd) ==
    LET n == Len(fd)
        bad == {i \in 1..n : StratifyErrorAt(fd, i) /= "none"}
        roots == {i \in 1..n : ParentId(fd[i]) = NULL}
        root == CHOOSE i \in roots : TRUE
    IN  IF bad /= {} \/ roots = {}
        THEN [error |-> "missing", root |-> 0, children |-> <<>>]
        ELSE [error |-> "none",
              root |-> root,
              children |-> [i \in 1..n |->
                  SelectSeq(Indices(fd),
                            LAMBDA j : IF ReachesRoot(fd, j, n)
                                       THEN ParentIndex(fd, j) = i /\ ReachesRoot(fd, i, n)
                                       ELSE i = root)]]

stratify(fd) ==
    LET n == Len(fd)
        bad == {i \in 1..n : StratifyErrorAt(fd, i) /= "none"}
        roots == {i \in 1..n : ParentId(fd[i]) = NULL}
        error ==
            IF bad /= {}
            THEN StratifyErrorAt(fd, CHOOSE i \in bad : \A j \in bad : i <= j)
            ELSE IF roots = {} THEN "no root"
            ELSE IF \E i \in 1..n : ~ReachesRoot(fd, i, n) THEN "cycle"
            ELSE "none"
    IN  IF error /= "none"
        THEN [error |-> error, root |-> 0, children |-> <<>>]
        ELSE [error |-> "none",
              root |-> CHOOSE i \in roots : TRUE,
              children |-> [i \in 1..n |-> ChildrenOf(fd, i)]]

\* (a.data.seniorityRank || 10)
RankOr10(d) == IF d.seniorityRank = NoRank \/ d.seniorityRank = 0 THEN 10 ELSE d.seniorityRank

\* the comparator handed to root.sort
Compare(a, b) == RankOr10(a) - RankOr10(b)

\* Array.prototype.sort is stable: x goes after every element that does not compare greater
RECURSIVE InsertSorted(_, _, _)
InsertSorted(fd, sorted, x) ==
    IF sorted = <<>> THEN <<x>>
    ELSE IF Compare(fd[sorted[Len(sorted)]], fd[x]) <= 0 THEN Append(sorted, x)
    ELSE Append(InsertSorted(fd, SubSeq(sorted, 1, Len(sorted) - 1), x), sorted[Len(sorted)])

RECURSIVE SortPrefix(_, _, _)
SortPrefix(fd, kids, k) ==
    IF k = 0 THEN <<>> ELSE InsertSorted(fd, SortPrefix(fd, kids, k - 1), kids[k])

SortChildren(fd, kids) == SortPrefix(fd, kids, Len(kids))

\* root.sort(compare): every node's children array is sorted
sort(fd, tree) ==
    [tree EXCEPT !.children = [i \in 1..Len(fd) |-> SortChildren(fd, tree.children[i])]]

----------------------------------------------------------------------------
(* OrgChart effect: Layout Engine, d3.tree().nodeSize([nodeWidth +           *)
(* horizontalSpacing, verticalSpacing]). Coordinates are pixels. A subtree   *)
(* is described by its contour: per level below its top node, the leftmost   *)
(* and the rightmost x relative to the top node. Each child subtree is put   *)
(* as far left as the separation from the subtrees before it allows, and a   *)
(* parent is centred over its first and last child. d3 also spreads the      *)
(* subtrees lying between two that collide; that needs a node with three     *)
(* children of which the outer two have children, seven nodes at least, and  *)
(* is not modelled.                                                          *)

nodeWidth == 260
nodeHeight == 120
verticalSpacing == 200
horizontalSpacing == 60

\* a layout whose separation is one node width, without the horizontal spacing
SeparationWithoutSpacing(level) ==
    (IF level = 1 THEN 1 ELSE 2) * nodeWidth

\* separation(a, b) = a.parent === b.parent ? 1 : 2, in units of the node size dx;
\* level 1 of two neighbouring subtrees are siblings, deeper levels are not
Separation(level) ==
    (IF level = 1 THEN 1 ELSE 2) * (nodeWidth + horizontalSpacing)

MaxOf(S) == CHOOSE m \in S : \A n \in S : n <= m

MinLen(a, b) == IF Len(a) <= Len(b) THEN Len(a) ELSE Len(b)

MaxLen(a, b) == IF Len(a) >= Len(b) THEN Len(a) ELSE Len(b)

\* how far right of the origin of `prev` the subtree `next` has to go
ShiftFor(prev, next) ==
    MaxOf({prev[d].r + Separation(d) - next[d].l : d \in 1..MinLen(prev, next)})

\* contour of `prev` together with `next` placed at offset o
MergeContours(prev, next, o) ==
    [d \in 1..MaxLen(prev, next) |->
        [l |-> IF d <= Len(prev) THEN prev[d].l ELSE next[d].l + o,
         r |-> IF d <= Len(next) THEN next[d].r + o ELSE prev[d].r]]

RECURSIVE ContourOf(_, _)
RECURSIVE PlaceChildren(_, _, _)

\* offsets of the first k of `kids` relative to the first one, and their joint contour
PlaceChildren(children, kids, k) ==
    IF k = 1
    THEN [offs |-> <<0>>, contour |-> ContourOf(children, kids[1])]
    ELSE LET before == PlaceChildren(children, kids, k - 1)
             c == ContourOf(children, kids[k])
             o == ShiftFor(before.contour, c)
         IN  [offs |-> Append(before.offs, o),
              contour |-> MergeContours(before.contour, c, o)]

\* midpoint of the first and the last child, relative to the first child
Midpoint(offs) == (offs[1] + offs[Len(offs)]) \div 2

ContourOf(children, i) ==
    IF children[i] = <<>> THEN <<[l |-> 0, r |-> 0]>>
    ELSE LET p == PlaceChildren(children, children[i], Len(children[i]))
         IN  <<[l |-> 0, r |-> 0]>> \o
             [d \in 1..Len(p.contour) |->
                 [l |-> p.contour[d].l - Midpoint(p.offs),
                  r |-> p.contour[d].r - Midpoint(p.offs)]]

\* x of the k-th child of node i relative to i
ChildOffset(children, i, k) ==
    LET p == PlaceChildren(children, children[i], Len(children[i]))
    IN  p.offs[k] - Midpoint(p.offs)

\* the parent of node i in the tree and the place of i among its children
ParentIn(children, i) ==
    CHOOSE p \in 1..Len(children) : \E k \in 1..Len(children[p]) : children[p][k] = i

PlaceIn(children, i) ==
    CHOOSE k \in 1..Len(children[ParentIn(children, i)]) :
        children[ParentIn(children, i)][k] = i

RECURSIVE DepthOf(_, _, _)
DepthOf(children, root, i) ==
    IF i = root THEN 0 ELSE 1 + DepthOf(children, root, ParentIn(children, i))

\* the root is at x = 0 (nodeSize layout)
RECURSIVE XOf(_, _, _)
XOf(children, root, i) ==
    IF i = root THEN 0
    ELSE XOf(children, root, ParentIn(children, i)) +
         ChildOffset(children, ParentIn(children, i), PlaceIn(children, i))

\* a layout whose rows are node height + vertical spacing apart
treeLayoutRowsByHeight(children, root) ==
    [x |-> [i \in 1..Len(children) |-> XOf(children, root, i)],
     y |-> [i \in 1..Len(children) |->
              DepthOf(children, root, i) * (nodeHeight + verticalSpacing)]]

\* treeLayout(root): node.x, and node.y = node.depth * dy, for every node
treeLayout(children, root) ==
    [x |-> [i \in 1..Len(children) |-> XOf(children, root, i)],
     y |-> [i \in 1..Len(children) |-> DepthOf(children, root, i) * verticalSpacing]]

----------------------------------------------------------------------------
(* OrgChart effect as a whole: what it leaves on the svg *)

\* the zoom transform's scale k as a fraction; d3.zoomIdentity has k = 1
ZoomIdentity == [num |-> 1, den |-> 1]

\* d3.zoomIdentity.translate(...).scale(0.75), set at the end of a build
InitialScale == [num |-> 3, den |-> 4]

\* part_000 ends its build with scale(0.7)
InitialScaleOf(src) == IF src = OrgChartTsx THEN InitialScale ELSE [num |-> 7, den |-> 10]

\* x, y: the coordinates of the drawn nodes (d.x, d.y of the hierarchy nodes);
\* zoom: the scale of the zoom transform while nodes are drawn;
\* drags: how many drag events the drawing has seen (it bounds the model)
Unmounted ==
    [phase |-> "unmounted", rootId |-> NULL, forestData |-> <<>>, error |-> "none",
     root |-> 0, children |-> <<>>, x |-> <<>>, y |-> <<>>, zoom |-> ZoomIdentity, drags |-> 0]

\* svg.selectAll("*").remove(), then `if (contacts.length === 0) return`
Cleared ==
    [phase |-> "empty", rootId |-> NULL, forestData |-> <<>>, error |-> "none",
     root |-> 0, children |-> <<>>, x |-> <<>>, y |-> <<>>, zoom |-> ZoomIdentity, drags |-> 0]

\* an effect that sanitizes the references of all contacts first and filters the
\* department afterwards
EffectSanitizeThenFilter(src, data, filterDepartment, now) ==
    LET rootId == VIRTUAL_ROOT_ID(src, now)
        full == forestData(src, data.contacts, rootId)
        fd == Append(FilterDepartment(SubSeq(full, 1, Len(full) - 1), filterDepartment),
                     VirtualRoot(rootId))
        tree == stratify(fd)
    IN  IF data.isNull THEN Unmounted
        ELSE IF Len(fd) = 1 THEN Cleared
        ELSE IF tree.error /= "none"
        THEN [phase |-> "error", rootId |-> rootId, forestData |-> fd,
              error |-> tree.error, root |-> 0, children |-> <<>>,
              x |-> <<>>, y |-> <<>>, zoom |-> ZoomIdentity, drags |-> 0]
        ELSE [phase |-> "built", rootId |-> rootId, forestData |-> fd,
              error |-> "none", root |-> tree.root,
              children |-> sort(fd, tree).children,
              x |-> treeLayout(sort(fd, tree).children, tree.root).x,
              y |-> treeLayout(sort(fd, tree).children, tree.root).y,
              zoom |-> InitialScaleOf(src), drags |-> 0]

Effect(src, data, filterDepartment, now) ==
    LET contacts == FilterDepartment(data.contacts, filterDepartment)
        rootId == VIRTUAL_ROOT_ID(src, now)
        fd == forestData(src, contacts, rootId)
        tree == stratify(fd)
    IN  IF data.isNull THEN Unmounted
        ELSE IF Len(contacts) = 0 THEN Cleared
        ELSE IF tree.error /= "none"
        THEN [phase |-> "error", rootId |-> rootId, forestData |-> fd,
              error |-> tree.error, root |-> 0, children |-> <<>>,
              x |-> <<>>, y |-> <<>>, zoom |-> ZoomIdentity, drags |-> 0]
        ELSE [phase |-> "built", rootId |-> rootId, forestData |-> fd,
              error |-> "none", root |-> tree.root,
              children |-> sort(fd, tree).children,
              x |-> treeLayout(sort(fd, tree).children, tree.root).x,
              y |-> treeLayout(sort(fd, tree).children, tree.root).y,
              zoom |-> InitialScaleOf(src), drags |-> 0]

\* a rebuild that puts the nodes back where they were dragged to
RebuiltKeepingPositions(old, new) ==
    IF old.phase = "built" /\ new.phase = "built" /\ Len(old.x) = Len(new.x)
    THEN [new EXCEPT !.x = old.x, !.y = old.y, !.drags = old.drags]
    ELSE new

\* the svg after the effect ran again: svg.selectAll("*").remove() and a new
\* hierarchy from stratify; nothing of the old drawing is carried over
Rebuilt(old, new) == new

\* a drag that runs the layout again before it moves the node
RepositionAfterLayout(c, i, dx, dy) ==
    [c EXCEPT !.x = [treeLayout(c.children, c.root).x EXCEPT
                        ![i] = c.x[i] + (dx * c.zoom.den) \div c.zoom.num],
              !.y = [treeLayout(c.children, c.root).y EXCEPT
                        ![i] = c.y[i] + (dy * c.zoom.den) \div c.zoom.num],
              !.drags = @ + 1]

\* a drag that places the node at its computed place plus the event's delta
RepositionFromLayout(c, i, dx, dy) ==
    [c EXCEPT !.x[i] = treeLayout(c.children, c.root).x[i] + (dx * c.zoom.den) \div c.zoom.num,
              !.y[i] = treeLayout(c.children, c.root).y[i] + (dy * c.zoom.den) \div c.zoom.num,
              !.drags = @ + 1]

\* the "drag" handler: d.x += event.dx / transform.k; d.y += event.dy / transform.k
Reposition(c, i, dx, dy) ==
    [c EXCEPT !.x[i] = @ + (dx * c.zoom.den) \div c.zoom.num,
              !.y[i] = @ + (dy * c.zoom.den) \div c.zoom.num,
              !.drags = @ + 1]

\* an effect that works on data.contacts itself: the filter and the pushed root
\* end up in the Analysis
DataAfterEffectInPlace(src, data, filterDepartment, now) ==
    IF data.isNull \/ Len(FilterDepartment(data.contacts, filterDepartment)) = 0 THEN data
    ELSE [data EXCEPT !.contacts =
            Append(FilterDepartment(data.contacts, filterDepartment),
                   VirtualRoot(VIRTUAL_ROOT_ID(src, now)))]

\* data.contacts after the effect: `[...data.contacts]` is a copy, the effect
\* writes only to its own arrays
DataAfterEffect(src, data, filterDepartment, now) == data

----------------------------------------------------------------------------
(* The session: App.tsx state and handlers, with the OrgChart effect that   *)
(* React runs after every commit that changes `data` or `filterDepartment`. *)

Idle == [isLoading |-> FALSE, error |-> NULL, step |-> "idle"]

FileKinds == {"text", "empty", "unreadable"}

Init ==
    /\ analysis = NoAnalysis
    /\ activeDept = NULL
    /\ stagedFiles = <<>>
    /\ status = Idle
    /\ run = "idle"
    /\ selectedNode = NULL
    /\ chart = Unmounted
    /\ chartSrc \in ChartSources
    /\ appSrc \in AppSources
    /\ last = [op |-> "none", id |-> NULL, analysis |-> NoAnalysis, status |-> Idle,
               response |-> <<>>, moved |-> FALSE]

\* some drawn node is not where the layout put it
Moved(c) ==
    /\ c.phase = "built"
    /\ [x |-> c.x, y |-> c.y] /= treeLayout(c.children, c.root)

\* history record of an operation with argument `id`, taken before it acts
Did(op, id) ==
    [op |-> op, id |-> id, analysis |-> analysis, status |-> status, response |-> <<>>,
     moved |-> Moved(chart)]

\* an upload panel that stays on screen while a request is outstanding
UploadPanelShownWhileLoading == analysis.isNull

\* the upload panel is rendered: {!analysis && !status.isLoading && (...)}
UploadPanelShown == analysis.isNull /\ ~status.isLoading

\* handleFileDrop, one file of the FileList at a time
handleFileDrop ==
    /\ UploadPanelShown
    /\ Len(stagedFiles) < MaxFiles
    /\ \E f \in FileKinds : stagedFiles' = Append(stagedFiles, f)
    /\ UNCHANGED <<analysis, activeDept, status, run, selectedNode, chart, chartSrc, appSrc, last>>

\* the remove button of a staged file: prev.filter((_, idx) => idx !== i)
RemoveStagedFile ==
    /\ UploadPanelShown
    /\ \E i \in 1..Len(stagedFiles) :
          stagedFiles' = [j \in 1..(Len(stagedFiles) - 1) |->
                             IF j < i THEN stagedFiles[j] ELSE stagedFiles[j + 1]]
    /\ UNCHANGED <<analysis, activeDept, status, run, selectedNode, chart, chartSrc, appSrc, last>>

\* runAnalysis up to its first await, called from the Generate button of the upload
\* panel. The panel is hidden while isLoading, so one position `run` describes the
\* only request there can be.
runAnalysis ==
    /\ UploadPanelShown
    /\ Len(stagedFiles) > 0
    /\ status' = [isLoading |-> TRUE, error |-> NULL, step |-> "scanning"]
    /\ run' = "reading"
    /\ last' = Did("run", NULL)
    /\ UNCHANGED <<analysis, activeDept, stagedFiles, selectedNode, chart, chartSrc, appSrc>>

\* what Promise.all over the staged files rejects with, NULL when it resolves:
\* both Apps fail on a file whose text() rejects, only the first on an empty text
ReadError(src, files) ==
    IF src = AppV1
    THEN IF \A i \in 1..Len(files) : files[i] = "text" THEN NULL ELSE "Could not read"
    ELSE IF \A i \in 1..Len(files) : files[i] /= "unreadable" THEN NULL
         ELSE "NotReadableError"

\* await Promise.all(stagedFiles.map(file.text())) settles
FilesRead ==
    /\ run = "reading"
    /\ IF ReadError(appSrc, stagedFiles) = NULL
       THEN /\ status' = [status EXCEPT !.step = "mapping"]
            /\ run' = "calling"
            /\ last' = Did("call", NULL)
       ELSE /\ status' = [isLoading |-> FALSE, error |-> ReadError(appSrc, stagedFiles),
                          step |-> "idle"]
            /\ run' = "idle"
            /\ last' = Did("readfail", NULL)
    /\ UNCHANGED <<analysis, activeDept, stagedFiles, selectedNode, chart, chartSrc, appSrc>>

\* await analyzeAccountDocument(combinedText) resolves with the parsed response
CollaboratorReturns(Responses, Times) ==
    /\ run = "calling"
    /\ \E parsed \in Responses, now \in Times :
          LET result == AnalysisOf(analyzeAccountDocument(parsed))
          IN  IF appSrc = AppV1 /\ Len(result.contacts) = 0
              THEN /\ status' = [isLoading |-> FALSE, error |-> "No stakeholders identified",
                                 step |-> "idle"]
                   /\ last' = [Did("zero", NULL) EXCEPT !.response = parsed]
                   /\ UNCHANGED <<analysis, activeDept, stagedFiles, selectedNode, chart>>
              ELSE /\ analysis' = DataAfterEffect(chartSrc, result, NULL, now)
                   /\ last' = [Did("analyze", NULL) EXCEPT !.response = parsed]
                   /\ activeDept' = NULL
                   /\ stagedFiles' = <<>>
                   /\ status' = [Idle EXCEPT !.step =
                                    IF appSrc = AppV1 THEN "idle" ELSE "finalizing"]
                   /\ selectedNode' = NULL
                   /\ chart' = Rebuilt(chart, Effect(chartSrc, result, NULL, now))
    /\ run' = "idle"
    /\ UNCHANGED <<chartSrc, appSrc>>

\* a catch block that records the error and leaves isLoading set
CollaboratorThrowsKeepsLoading ==
    /\ run = "calling"
    /\ status' = [status EXCEPT !.error = "Analysis failed"]
    /\ run' = "idle"
    /\ last' = Did("throws", NULL)
    /\ UNCHANGED <<analysis, activeDept, stagedFiles, selectedNode, chart, chartSrc, appSrc>>

\* the collaborator call rejects, or its response does not parse
CollaboratorThrows ==
    /\ run = "calling"
    /\ status' = [isLoading |-> FALSE, error |-> "Analysis failed", step |-> "idle"]
    /\ run' = "idle"
    /\ last' = Did("throws", NULL)
    /\ UNCHANGED <<analysis, activeDept, stagedFiles, selectedNode, chart, chartSrc, appSrc>>

\* the Dismiss button of the error banner (the second App renders no banner)
DismissError ==
    /\ appSrc = AppV1
    /\ status.error /= NULL
    /\ status' = [status EXCEPT !.error = NULL]
    /\ last' = Did("dismiss", NULL)
    /\ UNCHANGED <<analysis, activeDept, stagedFiles, run, selectedNode, chart, chartSrc, appSrc>>

\* a New Scan button that is rendered whether or not an Analysis is displayed
NewScanAlwaysShown ==
    /\ analysis' = NoAnalysis
    /\ stagedFiles' = <<>>
    /\ status' = IF appSrc = AppV1 THEN Idle ELSE status
    /\ selectedNode' = NULL
    /\ chart' = Unmounted
    /\ last' = [Did("newscan", NULL) EXCEPT !.analysis = NoAnalysis, !.moved = FALSE]
    /\ UNCHANGED <<activeDept, run, chartSrc, appSrc>>

\* the New Scan button; OrgChart unmounts with the analysis
NewScan ==
    /\ ~analysis.isNull
    /\ analysis' = NoAnalysis
    /\ stagedFiles' = <<>>
    /\ status' = IF appSrc = AppV1 THEN Idle ELSE status
    /\ selectedNode' = NULL
    /\ chart' = Unmounted
    /\ last' = [Did("newscan", NULL) EXCEPT !.analysis = NoAnalysis, !.moved = FALSE]
    /\ UNCHANGED <<activeDept, run, chartSrc, appSrc>>

\* the department select: setActiveDept(e.target.value || null)
SelectDepartment(Times) ==
    /\ ~analysis.isNull
    /\ \E d \in departments(analysis) \cup {NULL}, now \in Times :
          /\ d /= activeDept
          /\ activeDept' = d
          /\ analysis' = DataAfterEffect(chartSrc, analysis, d, now)
          /\ chart' = Rebuilt(chart, Effect(chartSrc, analysis, d, now))
          /\ last' = Did("filter", d)
    /\ UNCHANGED <<stagedFiles, status, run, selectedNode, chartSrc, appSrc>>

\* the click handler of a drawn node; part_000 ignores the virtual root
ClickNode ==
    /\ chart.phase = "built"
    /\ \E i \in 1..Len(chart.forestData) :
          /\ chartSrc = Part000 => chart.forestData[i].id /= chart.rootId
          /\ selectedNode' = chart.forestData[i].id
    /\ UNCHANGED <<analysis, activeDept, stagedFiles, status, run, chart, chartSrc, appSrc, last>>

\* the close button of the details panel
CloseDetails ==
    /\ selectedNode /= NULL
    /\ chart.phase /= "unmounted"
    /\ selectedNode' = NULL
    /\ UNCHANGED <<analysis, activeDept, stagedFiles, status, run, chart, chartSrc, appSrc, last>>

\* "Delete from Map": onDeleteStakeholder(selectedNode.id); setSelectedNode(null).
\* The effect runs again only when the updater returned a new object.
DeleteFromMap(Times) ==
    /\ selectedNode /= NULL
    /\ chart.phase /= "unmounted"
    /\ LET next == deleteStakeholder(analysis, selectedNode)
       IN  IF FindTarget(analysis.contacts, selectedNode) = 0
           THEN /\ analysis' = next
                /\ chart' = chart
           ELSE \E now \in Times :
                   /\ analysis' = DataAfterEffect(chartSrc, next, activeDept, now)
                   /\ chart' = Rebuilt(chart, Effect(chartSrc, next, activeDept, now))
    /\ selectedNode' = NULL
    /\ last' = Did("delete", selectedNode)
    /\ UNCHANGED <<activeDept, stagedFiles, status, run, chartSrc, appSrc>>

\* the "drag" handler of a drawn node (components/OrgChart.tsx only; part_000 draws
\* nodes that cannot be dragged)
Drag(Events) ==
    /\ chartSrc = OrgChartTsx
    /\ chart.phase = "built"
    /\ chart.drags < MaxDrags
    /\ \E i \in 1..Len(chart.forestData), e \in Events :
          /\ chart' = Reposition(chart, i, e.dx, e.dy)
          /\ last' = Did("drag", chart.forestData[i].id)
    /\ UNCHANGED <<analysis, activeDept, stagedFiles, status, run, selectedNode, chartSrc,
                   appSrc>>

\* the "zoom" handler: the wheel changes the scale of the transform
Zoom(Scales) ==
    /\ chart.phase = "built"
    /\ \E k \in Scales :
          /\ k /= chart.zoom
          /\ chart' = [chart EXCEPT !.zoom = k]
    /\ last' = Did("zoom", NULL)
    /\ UNCHANGED <<analysis, activeDept, stagedFiles, status, run, selectedNode, chartSrc,
                   appSrc>>

Step(Responses, Times) ==
    \/ handleFileDrop
    \/ RemoveStagedFile
    \/ runAnalysis
    \/ FilesRead
    \/ CollaboratorReturns(Responses, Times)
    \/ CollaboratorThrows
    \/ DismissError
    \/ NewScan
    \/ SelectDepartment(Times)
    \/ ClickNode
    \/ CloseDetails
    \/ DeleteFromMap(Times)

----------------------------------------------------------------------------
(* Specifications: the same session over different collaborator responses *)

\* three ordinary ids (repeats included), managers among the first two, one department
ResponsesIds ==
    SeqsUpTo(Contacts({"a", "b", "c"}, {NULL, "a", "b"}, {"Eng"}, {1}), MaxContacts)

Next == Step(ResponsesIds, {1})

Spec == Init /\ [][Next]_vars

\* distinct ids in a fixed order, managers among the first two, two departments
\* (one of them absent from the record)
IdAt == <<"a", "b", "c", "d", "e">>

ResponsesDept ==
    UNION {{r \in [1..k -> Contacts({IdAt[i] : i \in 1..k}, {NULL, "a", "b"},
                                    {"Eng", NULL}, {1})] :
              \A i \in 1..k : r[i].id = IdAt[i]} : k \in 0..MaxContacts}

NextDept == Step(ResponsesDept, {1})

SpecDept == Init /\ [][NextDept]_vars

\* distinct ids in a fixed order, everybody under the root or under "a", every kind
\* of seniorityRank: 0, ordinary ranks, absent
ResponsesRank ==
    UNION {{r \in [1..k -> Contacts({IdAt[i] : i \in 1..k}, {NULL, "a"}, {"Eng"},
                                    {0, 1, 2, NoRank})] :
              \A i \in 1..k : r[i].id = IdAt[i]} : k \in 0..MaxContacts}

NextRank == Step(ResponsesRank, {1})

SpecRank == Init /\ [][NextRank]_vars

\* ids are untrusted strings: contacts named like the root ids the two OrgChart
\* sources generate, and builds at two different times
RootLikeIdAt == <<"__ORG_ROOT__", "__ROOT_1__", "a", "b", "c">>

ResponsesRoot ==
    UNION {{r \in [1..k -> Contacts({RootLikeIdAt[i] : i \in 1..k}, {NULL, "__ORG_ROOT__"},
                                    {"Eng", "Ops"}, {1})] :
              \A i \in 1..k : r[i].id = RootLikeIdAt[i]} : k \in 0..MaxContacts}

NextRoot == Step(ResponsesRoot, {1, 2})

SpecRoot == Init /\ [][NextRoot]_vars

\* a user who also drags nodes and zooms, in components/OrgChart.tsx under the first
\* App: everybody reports to "a", one department
ResponsesDrag ==
    UNION {{r \in [1..k -> Contacts({IdAt[i] : i \in 1..k}, {"a"}, {"Eng"}, {1})] :
              \A i \in 1..k : r[i].id = IdAt[i]} : k \in 0..MaxDragContacts}

InitDrag == Init /\ chartSrc = OrgChartTsx /\ appSrc = AppV1

\* pointer movements of a drag in screen pixels, and scales the wheel reaches
DragEvents == {[dx |-> 6, dy |-> 0], [dx |-> 0, dy |-> 6]}

ZoomScales == {InitialScale, [num |-> 3, den |-> 2]}

NextDrag == Step(ResponsesDrag, {1}) \/ Drag(DragEvents) \/ Zoom(ZoomScales)

SpecDrag == InitDrag /\ [][NextDrag]_vars

\* the session when the awaited promises settle: the read of the staged files
\* (Promise.all over file.text()) and the collaborator call each resolve or reject
NextLive == Step(ResponsesDrag, {1})

Settles == CollaboratorReturns(ResponsesDrag, {1}) \/ CollaboratorThrows

SpecLive == Init /\ [][NextLive]_vars /\ WF_vars(FilesRead) /\ WF_vars(Settles)

----------------------------------------------------------------------------
(* Vocabulary of the claims *)

\* the last operation was a Delete whose id was present in the Analysis
Deleted == last.op = "delete" /\ FindTarget(last.analysis.contacts, last.id) /= 0

\* the last operation was a Delete whose id matched no contact
DeletedNothing == last.op = "delete" /\ FindTarget(last.analysis.contacts, last.id) = 0

DeletedTarget == last.analysis.contacts[FindTarget(last.analysis.contacts, last.id)]

\* the contacts of the old Analysis that survive the Delete, in order
Survivors == SelectSeq(last.analysis.contacts, LAMBDA c : c.id /= last.id)

\* ids reachable from the ids in `from` over the manager references, in `fuel` rounds
RECURSIVE ManagersOf(_, _, _)
ManagersOf(contacts, from, fuel) ==
    LET step == {contacts[i].managerId :
                    i \in {j \in DOMAIN contacts :
                            contacts[j].id \in from /\ Truthy(contacts[j].managerId)}}
    IN  IF fuel = 0 THEN {} ELSE step \cup ManagersOf(contacts, step, fuel - 1)

\* no id is its own manager, directly or through other contacts (duplicates allowed)
Acyclic(contacts) ==
    \A x \in IdsOf(contacts) : x \notin ManagersOf(contacts, {x}, Len(contacts))

----------------------------------------------------------------------------
(* C1: on a contact list with acyclic manager references, Delete(id) of a   *)
(* present id removes the target, gives every remaining contact that        *)
(* pointed at id the target's former managerId (null when it had none),     *)
(* leaves the other contacts as they were, and leaves nobody pointing at id *)
C1_DeleteBridges ==
    (Deleted /\ Acyclic(last.analysis.contacts)) =>
        /\ ~analysis.isNull
        /\ Len(analysis.contacts) = Len(Survivors)
        /\ \A i \in 1..Len(Survivors) :
              /\ analysis.contacts[i].id = Survivors[i].id
              /\ analysis.contacts[i].id /= last.id
              /\ analysis.contacts[i].managerId /= last.id
              /\ IF Survivors[i].managerId = last.id
                 THEN analysis.contacts[i] =
                        [Survivors[i] EXCEPT !.managerId =
                            IF Truthy(DeletedTarget.managerId)
                            THEN DeletedTarget.managerId ELSE NULL]
                 ELSE analysis.contacts[i] = Survivors[i]

\* a middle manager with a manager and a report was deleted
C1_Witness ==
    /\ Deleted
    /\ Acyclic(last.analysis.contacts)
    /\ Truthy(DeletedTarget.managerId)
    /\ \E i \in 1..Len(Survivors) :
          /\ Survivors[i].managerId = last.id
          /\ analysis.contacts[i].managerId = DeletedTarget.managerId

----------------------------------------------------------------------------
(* Resolved ancestors of a contact in the unfiltered view of a contact list *)

RootToken == "<root>"

ResolvedParentOf(contacts, c) ==
    ResolvedManagerId(chartSrc, c, IdsOf(contacts), RootToken)

\* the ids met following resolved parents from c, the synthetic root excluded
RECURSIVE AncestorChain(_, _, _)
AncestorChain(contacts, c, fuel) ==
    IF ResolvedParentOf(contacts, c) = RootToken \/ fuel = 0 THEN <<>>
    ELSE <<ResolvedParentOf(contacts, c)>> \o
         AncestorChain(contacts,
                       contacts[FindTarget(contacts, ResolvedParentOf(contacts, c))],
                       fuel - 1)

Chain(contacts, c) == AncestorChain(contacts, c, Len(contacts) + 1)

Without(chain, id) == SelectSeq(chain, LAMBDA x : x /= id)

\* survivor i was a direct child of the deleted id
WasChild(i) == ResolvedParentOf(last.analysis.contacts, Survivors[i]) = last.id

\* the chain claim of C2 for survivor i of a Delete
ChainsBridged(i) ==
    IF WasChild(i)
    THEN Chain(analysis.contacts, analysis.contacts[i]) =
            Chain(last.analysis.contacts, DeletedTarget)
    ELSE Chain(analysis.contacts, analysis.contacts[i]) =
            Without(Chain(last.analysis.contacts, Survivors[i]), last.id)

----------------------------------------------------------------------------
(* C2: after Delete(id) of a present id, every former direct child of id    *)
(* has exactly the ancestor chain id had, and every other contact has its   *)
(* old chain with id removed                                                *)
C2_DeletePreservesChains ==
    Deleted => \A i \in 1..Len(Survivors) : ChainsBridged(i)

\* what holds: the same for Analyses whose manager references are acyclic
DeleteChainsWhenAcyclic ==
    (Deleted /\ Acyclic(last.analysis.contacts)) =>
        \A i \in 1..Len(Survivors) : ChainsBridged(i)

----------------------------------------------------------------------------
(* C3: Delete(id) with an id that matches no contact (the synthetic root's  *)
(* id included) leaves the Analysis as it was, same contacts in the same    *)
(* order with the same managerIds, and sets no error                        *)
C3_DeleteUnknownIsNoOp ==
    DeletedNothing =>
        /\ analysis = last.analysis
        /\ status = last.status
        /\ status.error = NULL

\* the synthetic root was selected in the chart and deleted
C3_Witness ==
    /\ DeletedNothing
    /\ ~analysis.isNull
    /\ Len(analysis.contacts) > 0
    /\ last.id = chart.rootId

----------------------------------------------------------------------------
(* The working set handed to the tree builder *)

PipelineRan == chart.phase \in {"built", "error"}

WorkingSet == chart.forestData

\* the contacts the effect started from
FilteredContacts == FilterDepartment(analysis.contacts, activeDept)

\* index of the synthetic root in the working set: it is pushed last
RootIndex == Len(WorkingSet)

----------------------------------------------------------------------------
(* C4: the working set (validated contacts plus synthetic root) contains no *)
(* two nodes with the same id                                               *)
C4_UniqueIds ==
    PipelineRan =>
        \A i, j \in 1..Len(WorkingSet) :
            WorkingSet[i].id = WorkingSet[j].id => i = j

----------------------------------------------------------------------------
(* Identity Validator (part_000): its output, read back from the working set *)

\* positions of the input whose id did not occur earlier
FirstOccurrences(contacts) ==
    SelectSeq([i \in 1..Len(contacts) |-> i],
              LAMBDA i : \A j \in 1..(i - 1) : contacts[j].id /= contacts[i].id)

\* a working-set node is the given contact, its managerId kept or resolved to the root
SameContact(node, c) ==
    /\ [node EXCEPT !.managerId = c.managerId] = c
    /\ node.managerId \in {c.managerId, chart.rootId}

(* C5: the Identity Validator keeps exactly the first occurrence of each id *)
(* in the original relative order; duplicates are dropped, not reported, so *)
(* no id is left twice among the validated contacts                         *)
C5_FirstOccurrencesKept ==
    (PipelineRan /\ chartSrc = Part000) =>
        /\ Len(WorkingSet) = Len(FirstOccurrences(FilteredContacts)) + 1
        /\ \A k \in 1..Len(FirstOccurrences(FilteredContacts)) :
              SameContact(WorkingSet[k],
                          FilteredContacts[FirstOccurrences(FilteredContacts)[k]])
        /\ \A i, j \in 1..(RootIndex - 1) :
              WorkingSet[i].id = WorkingSet[j].id => i = j

\* a list with a repeated id went through the validator
C5_Witness ==
    /\ PipelineRan
    /\ chartSrc = Part000
    /\ Len(FirstOccurrences(FilteredContacts)) < Len(FilteredContacts)
    /\ Len(FirstOccurrences(FilteredContacts)) >= 2

----------------------------------------------------------------------------
(* Reference Sanitizer, read back from the working set *)

\* the validated contact behind working-set node k (k is not the root)
SourceContact(k) ==
    ValidatedContacts(chartSrc, FilteredContacts)[k]

ValidIdSet == IdsOf(FilteredContacts)

ResolvedParentPresent ==
    \A k \in 1..(RootIndex - 1) :
        \E j \in 1..Len(WorkingSet) : WorkingSet[j].id = WorkingSet[k].managerId

----------------------------------------------------------------------------
(* C7: in every working set presented to the tree builder no contact is its *)
(* own resolved parent                                                      *)
C7_NoSelfParent ==
    PipelineRan =>
        \A k \in 1..(RootIndex - 1) : WorkingSet[k].managerId /= WorkingSet[k].id

----------------------------------------------------------------------------
\* node i arrives at the synthetic root in at most `fuel` resolved-parent steps
RECURSIVE ArrivesAtRoot(_, _, _)
ArrivesAtRoot(fd, i, fuel) ==
    IF i = Len(fd) THEN TRUE
    ELSE IF fuel = 0 \/ ParentIndex(fd, i) = 0 THEN FALSE
    ELSE ArrivesAtRoot(fd, ParentIndex(fd, i), fuel - 1)

(* C8: following resolved-parent links from any node of the working set     *)
(* reaches the synthetic root in at most |contacts| steps, so the resolved  *)
(* parent graph is one tree rooted at the synthetic root, without a cycle   *)
C8_ReachesRoot ==
    PipelineRan =>
        \A i \in 1..Len(WorkingSet) : ArrivesAtRoot(WorkingSet, i, Len(WorkingSet) - 1)

----------------------------------------------------------------------------
(* Sibling order in the built tree *)

\* the rank the claim orders by: the seniorityRank itself, 10 when it is absent
RankOf(d) == IF d.seniorityRank = NoRank THEN 10 ELSE d.seniorityRank

\* consecutive children x, y of a node are in order under the key `rank`, ties
\* in input order
InOrder(x, y, rankX, rankY) == rankX < rankY \/ (rankX = rankY /\ x < y)

(* C9: under every parent of the built tree the children are ordered        *)
(* ascending by seniorityRank, for every rank value in 0..10 and for a      *)
(* missing rank, and children of equal rank keep their input order          *)
C9_SiblingsAscendingByRank ==
    chart.phase = "built" =>
        \A p \in 1..Len(WorkingSet) :
            \A k \in 1..(Len(chart.children[p]) - 1) :
                InOrder(chart.children[p][k], chart.children[p][k + 1],
                        RankOf(WorkingSet[chart.children[p][k]]),
                        RankOf(WorkingSet[chart.children[p][k + 1]]))

\* what the comparator gives: ascending by (seniorityRank || 10), ties in input order
SiblingsAscendingByRankOr10 ==
    chart.phase = "built" =>
        \A p \in 1..Len(WorkingSet) :
            \A k \in 1..(Len(chart.children[p]) - 1) :
                InOrder(chart.children[p][k], chart.children[p][k + 1],
                        RankOr10(WorkingSet[chart.children[p][k]]),
                        RankOr10(WorkingSet[chart.children[p][k + 1]]))

----------------------------------------------------------------------------
(* C10: building a tree, with or without a department filter, leaves the    *)
(* Analysis as it was (after a filter change it is the Analysis from before,*)
(* after a Delete it is exactly what Delete produced), and the synthetic    *)
(* root is never one of the Analysis' contacts                              *)
C10_BuildLeavesAnalysis ==
    /\ last.op = "filter" => analysis = last.analysis
    /\ Deleted =>
          /\ analysis = deleteStakeholder(last.analysis, last.id)
          /\ \A i \in 1..Len(Survivors) :
                analysis.contacts[i].department = Survivors[i].department
    /\ \A i \in 1..Len(analysis.contacts) :
          /\ analysis.contacts[i].title /= "Account HQ"
          /\ PipelineRan => analysis.contacts[i] /= WorkingSet[RootIndex]

\* a filtered tree was built from an Analysis with contacts of another department
C10_Witness ==
    /\ last.op = "filter"
    /\ Truthy(activeDept)
    /\ chart.phase = "built"
    /\ Len(WorkingSet) - 1 < Len(analysis.contacts)

----------------------------------------------------------------------------
\* the contacts of the Analysis whose department is missing
WithoutDepartment ==
    SelectSeq(analysis.contacts, LAMBDA c : ~Truthy(c.department))

(* C11: a contact without department counts as department "General"        *)
(* everywhere: "General" is among the department choices, a filter on       *)
(* "General" puts the contact into the working set, and so every department *)
(* offered as a choice gives a non-empty working set when it is selected    *)
C11_GeneralEverywhere ==
    /\ WithoutDepartment /= <<>> => "General" \in departments(analysis)
    /\ (last.op = "filter" /\ activeDept \in departments(analysis)) =>
          /\ PipelineRan
          /\ Len(WorkingSet) > 1
          /\ activeDept = "General" =>
                \A i \in 1..Len(WithoutDepartment) :
                    \E k \in 1..(RootIndex - 1) : WorkingSet[k].id = WithoutDepartment[i].id

----------------------------------------------------------------------------
\* the nodes of the working set without a parent reference
Parentless == {i \in 1..Len(WorkingSet) : ParentId(WorkingSet[i]) = NULL}

(* C12: the synthetic root's id differs from the id of every real contact   *)
(* in the working set, whatever strings the contacts use as ids, so pushing *)
(* the root creates no duplicate id and no second root                      *)
C12_RootIdDistinct ==
    PipelineRan =>
        /\ \A k \in 1..(RootIndex - 1) : WorkingSet[k].id /= chart.rootId
        /\ Parentless = {RootIndex}

----------------------------------------------------------------------------
\* the extraction just returned: the Analysis is what the boundary handed over
Extracted == last.op = "analyze"

\* a manager reference the boundary does not keep: missing, unknown or to itself
Unusable(r, response) ==
    ~Truthy(r.managerId) \/ r.managerId \notin IdsOf(response) \/ r.managerId = r.id

(* C13: in every Analysis the extraction boundary returns, each contact's   *)
(* managerId is null or the id of a different contact of the same list; a   *)
(* missing, unknown or self-referencing managerId of the collaborator's     *)
(* response has become null, any other is kept, nothing else is changed     *)
C13_BoundaryManagerIds ==
    Extracted =>
        /\ Len(analysis.contacts) = Len(last.response)
        /\ \A i \in 1..Len(analysis.contacts) :
              /\ \/ analysis.contacts[i].managerId = NULL
                 \/ /\ analysis.contacts[i].managerId /= analysis.contacts[i].id
                    /\ analysis.contacts[i].managerId \in IdsOf(analysis.contacts)
              /\ analysis.contacts[i] =
                    [last.response[i] EXCEPT !.managerId =
                        IF Unusable(last.response[i], last.response)
                        THEN NULL ELSE last.response[i].managerId]

\* one response with a self reference, an unknown reference and a kept one
C13_Witness ==
    /\ Extracted
    /\ \E i \in 1..Len(last.response) :
          last.response[i].managerId = last.response[i].id
    /\ \E i \in 1..Len(last.response) :
          /\ Truthy(last.response[i].managerId)
          /\ last.response[i].managerId \notin IdsOf(last.response)
    /\ \E i \in 1..Len(analysis.contacts) : Truthy(analysis.contacts[i].managerId)

----------------------------------------------------------------------------
(* Extraction attempts that failed *)

\* the collaborator answered with a response without contacts
ZeroReturned == last.op \in {"zero", "analyze"} /\ Len(last.response) = 0

\* the collaborator call rejected
Thrown == last.op = "throws"

(* C14: when an extraction attempt fails, the collaborator throwing or      *)
(* returning zero contacts, the session holds the same Analysis after the   *)
(* attempt as before it and the attempt is over (not loading)               *)
C14_FailureKeepsAnalysis ==
    (Thrown \/ ZeroReturned) =>
        /\ analysis = last.analysis
        /\ ~status.isLoading

(* C15: when the collaborator returns zero contacts the attempt ends in an  *)
(* error state with the message "No stakeholders identified", the Analysis  *)
(* is not replaced by the empty result, and the chart effect does not run   *)
(* for that result                                                          *)
C15_ZeroContactsIsError ==
    ZeroReturned =>
        /\ status = [isLoading |-> FALSE, error |-> "No stakeholders identified",
                     step |-> "idle"]
        /\ analysis = last.analysis
        /\ chart = Unmounted

(* C16: if a staged document is empty or unreadable, the collaborator is    *)
(* never called for it, and the attempt ends in an error state with the     *)
(* Analysis left as it was                                                  *)
C16_BadFileStopsAttempt ==
    /\ run = "calling" => \A i \in 1..Len(stagedFiles) : stagedFiles[i] = "text"
    /\ last.op = "readfail" =>
          /\ status.error /= NULL
          /\ ~status.isLoading
          /\ run = "idle"
          /\ analysis = last.analysis

----------------------------------------------------------------------------
(* Outstanding extraction requests *)

Outstanding == run /= "idle"

\* a response (or a read failure) of a request has just been handled
Completed == last.op \in {"analyze", "zero", "throws", "readfail"}

----------------------------------------------------------------------------
(* Reposition (C18, C19, C20) *)

\* the coordinates of the drawn nodes
Positions(c) == [x |-> c.x, y |-> c.y]

\* the step is a drag event on a drawn node
DragStep == last'.op = "drag" /\ chart' /= chart

\* the drawn node with the id the last operation named
DraggedNode == CHOOSE i \in 1..Len(chart.forestData) : chart.forestData[i].id = last.id

(* C18: a Reposition changes only the coordinate of the node it names, by   *)
(* the event's delta divided by the zoom scale; the Analysis, the other     *)
(* nodes' coordinates (also those dragged before) and the rest of the       *)
(* drawing stay as they were: the layout is not run again                   *)
C18_RepositionMovesOneNode ==
    [][DragStep =>
          \E i \in 1..Len(chart.forestData), e \in DragEvents :
              /\ chart.forestData[i].id = last'.id
              /\ analysis' = analysis
              /\ chart'.x[i] = chart.x[i] + (e.dx * chart.zoom.den) \div chart.zoom.num
              /\ chart'.y[i] = chart.y[i] + (e.dy * chart.zoom.den) \div chart.zoom.num
              /\ \A j \in (1..Len(chart.forestData)) \ {i} :
                    chart'.x[j] = chart.x[j] /\ chart'.y[j] = chart.y[j]
              /\ [chart' EXCEPT !.x = chart.x, !.y = chart.y, !.drags = chart.drags] = chart
      ]_vars

\* a node was dragged while another node was off its computed place, and that
\* other node is still where it had been dragged to
C18_Witness ==
    /\ last.op = "drag"
    /\ last.moved
    /\ chart.phase = "built"
    /\ \E j \in (1..Len(chart.forestData)) \ {DraggedNode} :
          Positions(chart).x[j] /= treeLayout(chart.children, chart.root).x[j]

\* the last operation built the chart again: a filter change, a Delete that removed
\* a contact, or a new Analysis
RebuiltNow ==
    /\ chart.phase = "built"
    /\ \/ last.op \in {"filter", "analyze"}
       \/ Deleted

(* C19: whatever was repositioned before, the chart a full rebuild leaves   *)
(* (after a filter change, a Delete or a new Analysis) has every node at    *)
(* the place the layout computes for it: no dragged position is kept        *)
C19_RebuildForgetsRepositions ==
    RebuiltNow =>
        /\ Positions(chart) = treeLayout(chart.children, chart.root)
        /\ chart.zoom = InitialScale

\* the chart was built again from a drawing that had nodes off their computed place
C19_Witness ==
    /\ RebuiltNow
    /\ last.moved

\* the nodes that a drag event can name in the drawn chart
Draggable == IF chart.phase = "built" THEN 1..Len(chart.forestData) ELSE {}

\* two Repositions give the same coordinates in either order
Commute(c, i, e, j, f) ==
    Positions(Reposition(Reposition(c, i, e.dx, e.dy), j, f.dx, f.dy))
        = Positions(Reposition(Reposition(c, j, f.dx, f.dy), i, e.dx, e.dy))

----------------------------------------------------------------------------
(* Layout Engine (C21, C25) *)

Abs(n) == IF n < 0 THEN 0 - n ELSE n

\* the nodes of the drawn chart
DrawnNodes == IF chart.phase = "built" THEN 1..Len(chart.children) ELSE {}

\* the chart is drawn and no node has been dragged since
FreshlyLaidOut == chart.phase = "built" /\ chart.drags = 0

C25_RowsByHeightAndSpacing ==
    FreshlyLaidOut =>
        \A i \in DrawnNodes :
            chart.y[i] = DepthOf(chart.children, chart.root, i) * (nodeHeight + verticalSpacing)

(* C25 amended: every node of the built tree has y = depth * vertical       *)
(* spacing, the synthetic root at depth 0 and y = 0; the node height is no  *)
(* part of the distance between two levels                                  *)
C25_RowsBySpacing ==
    FreshlyLaidOut =>
        /\ chart.y[chart.root] = 0
        /\ chart.forestData[chart.root].id = chart.rootId
        /\ \A i \in DrawnNodes :
              chart.y[i] = DepthOf(chart.children, chart.root, i) * verticalSpacing

\* a drawn tree with a node two levels below the synthetic root, at y = 400
C25_Witness ==
    /\ FreshlyLaidOut
    /\ \E i \in DrawnNodes :
          /\ DepthOf(chart.children, chart.root, i) = 2
          /\ chart.y[i] = 2 * verticalSpacing

----------------------------------------------------------------------------
(* Failed tree builds (C22, C23) *)

\* the error texts the session sets for unreadable input and failed extraction
InputAndExtractionErrors ==
    {"Could not read", "NotReadableError", "No stakeholders identified", "Analysis failed"}

\* the tree build threw: the catch block of the effect ran
BuildFailed == chart.phase = "error"

(* C22: when the tree build fails with a structural error, the session      *)
(* reports an error of its own, different from the input and extraction     *)
(* errors; it is not left without error over an empty chart                 *)
C22_BuildFailureReported ==
    BuildFailed =>
        /\ status.error /= NULL
        /\ status.error \notin InputAndExtractionErrors

\* the contacts that lie on a cycle of manager references of length two or more
CycleMembers(contacts) ==
    {i \in DOMAIN contacts :
        /\ contacts[i].managerId /= contacts[i].id
        /\ contacts[i].id \in ManagersOf(contacts, {contacts[i].id}, Len(contacts))}

(* C23: when contacts of the working set reference each other in a cycle   *)
(* of length two or more, the sanitizer keeps their references and the      *)
(* build fails as a whole: no tree and no positions, not a partial tree      *)
C23_CycleFailsWholeBuild ==
    (PipelineRan /\ CycleMembers(FilteredContacts) /= {}) =>
        /\ \A i \in CycleMembers(FilteredContacts) :
              /\ WorkingSet[i].id = FilteredContacts[i].id
              /\ WorkingSet[i].managerId = FilteredContacts[i].managerId
        /\ BuildFailed
        /\ chart.children = <<>>
        /\ chart.x = <<>>
        /\ chart.y = <<>>

\* a view with two contacts managing each other and a third contact outside the cycle
C23_Witness ==
    /\ PipelineRan
    /\ Cardinality(CycleMembers(FilteredContacts)) = 2
    /\ Len(FilteredContacts) = 3

----------------------------------------------------------------------------
(* Filter before sanitizer (C24) *)

\* the view is filtered by a department
FilteredView == PipelineRan /\ Truthy(activeDept)

\* working-set node k names a manager who is a contact of another department
ManagerElsewhere(k) ==
    /\ Truthy(SourceContact(k).managerId)
    /\ \E i \in DOMAIN analysis.contacts :
          /\ analysis.contacts[i].id = SourceContact(k).managerId
          /\ analysis.contacts[i].department /= activeDept

(* C24: the department filter comes before validation and sanitizing: in a  *)
(* filtered view every node but the root is a contact of that department,   *)
(* a contact whose manager is in another department has the synthetic root  *)
(* as resolved parent, and every resolved parent is present in the working  *)
(* set                                                                      *)
C24_FilterBeforeSanitizer ==
    FilteredView =>
        /\ \A k \in 1..(RootIndex - 1) :
              /\ WorkingSet[k].department = activeDept
              /\ ManagerElsewhere(k) => WorkingSet[k].managerId = chart.rootId
        /\ ResolvedParentPresent

\* a filtered view with a contact whose manager is a contact of another department
C24_Witness ==
    /\ FilteredView
    /\ \E k \in 1..(RootIndex - 1) :
          ManagerElsewhere(k) /\ WorkingSet[k].managerId = chart.rootId

----------------------------------------------------------------------------
(* Extraction attempts (C26, C29) *)

\* the last operation ended an extraction attempt
AttemptEnded == last.op \in {"analyze", "zero", "throws", "readfail"}

\* ready: the Analysis is the boundary's result for the response, no error
Ready ==
    /\ last.op = "analyze"
    /\ analysis = AnalysisOf(analyzeAccountDocument(last.response))
    /\ status.error = NULL

\* failed: an error is set and the Analysis is the one the attempt started from
Failed ==
    /\ status.error /= NULL
    /\ analysis = last.analysis

(* C26: every started extraction attempt leaves the loading state when the  *)
(* read of the documents and the collaborator call settle, and it ends      *)
(* either ready (Analysis replaced by the result, no error) or failed       *)
(* (error set, Analysis as before the attempt), never both and never        *)
(* loading forever                                                          *)
C26_AttemptEnds ==
    /\ [](AttemptEnded =>
            /\ ~status.isLoading
            /\ run = "idle"
            /\ Ready \/ Failed
            /\ ~(Ready /\ Failed))
    /\ (status.isLoading ~> ~status.isLoading)

\* an attempt that reached the collaborator has ended failed: the error is set, the
\* session is not loading and there is still no Analysis
C26_Witness ==
    /\ last.op = "throws"
    /\ last.status.isLoading
    /\ ~status.isLoading
    /\ Failed

----------------------------------------------------------------------------
(* The canonical Analysis under Delete (C27) *)

(* C27: after an extraction and any sequence of Deletes, every contact of   *)
(* the Analysis has a managerId that is null or the id of a different       *)
(* contact still present in the Analysis                                    *)
C27_ManagerIdsStayValid ==
    ~analysis.isNull =>
        \A i \in DOMAIN analysis.contacts :
            \/ analysis.contacts[i].managerId = NULL
            \/ /\ analysis.contacts[i].managerId /= analysis.contacts[i].id
               /\ analysis.contacts[i].managerId \in IdsOf(analysis.contacts)

----------------------------------------------------------------------------
(* The active filter (C28) *)

(* C28: whenever an Analysis is displayed and a department filter is        *)
(* active, some contact of the Analysis has that department (a contact      *)
(* without department counting as "General"), also after a Delete           *)
C28_ActiveFilterHasContacts ==
    (~analysis.isNull /\ Truthy(activeDept)) => activeDept \in departments(analysis)

\* the New Scan button is rendered: {analysis && (...)}
NewScanShown == ~analysis.isNull

(* C29: at most one extraction request is outstanding: a request starts     *)
(* only when no Analysis is displayed and the session is not loading;       *)
(* while it is outstanding neither the upload panel nor New Scan is         *)
(* rendered, no step starts the request again, and the loading state is     *)
(* cleared only by the step that completes the request                      *)
C29_AtMostOneOutstanding ==
    [][/\ (run = "idle" /\ run' /= "idle") =>
            /\ analysis.isNull
            /\ ~status.isLoading
            /\ status'.isLoading
       /\ run /= "idle" =>
            /\ status.isLoading
            /\ ~UploadPanelShown
            /\ ~NewScanShown
            /\ run = "calling" => run' /= "reading"
       /\ (status.isLoading /\ ~status'.isLoading) =>
            /\ run /= "idle"
            /\ run' = "idle"
            /\ last'.op \in {"analyze", "zero", "throws", "readfail"}
      ]_vars

\* a request is outstanding at its first await, and neither the upload panel nor
\* New Scan is rendered
C29_Witness ==
    /\ run = "reading"
    /\ last.op = "run"
    /\ ~UploadPanelShown
    /\ ~NewScanShown

----------------------------------------------------------------------------
(* The nodes of a built tree (C30) *)

\* the positioned nodes that carry the given id
PositionedWithId(id) == {k \in DOMAIN chart.x : chart.forestData[k].id = id}

(* C30: whenever the tree build succeeds, the built tree holds the          *)
(* synthetic root and every id of the filtered contact list exactly once    *)
(* and nothing else: the number of positioned nodes is the number of        *)
(* distinct ids of the filtered contacts plus one                           *)
C30_NodesAreDistinctIdsPlusRoot ==
    chart.phase = "built" =>
        /\ Cardinality(DOMAIN chart.x) = Cardinality(IdsOf(FilteredContacts)) + 1
        /\ Cardinality(PositionedWithId(chart.rootId)) = 1
        /\ \A id \in IdsOf(FilteredContacts) : Cardinality(PositionedWithId(id)) = 1

====
